---- MODULE Spec2Model ----
(***************************************************************************)
(* Model of the /analyze request handler of the Website Design Analyzer    *)
(* API (src/main.py): one request travelling through analyze_website, with *)
(* the browser, the page and the text-generation service as environment.   *)
(*                                                                         *)
(* Conventions.  An optional value (Python None / a missing attribute / a  *)
(* missing dict key) is a sequence of length 0 or 1: Nothing or Some(v).   *)
(* A dict with free keys is a set of <<key, value>> pairs.  A Python set,  *)
(* and the list made from it by list(), is a set: its order is arbitrary.  *)
(***************************************************************************)
EXTENDS Integers, Sequences, FiniteSets, TLC

\* ------------------------------------------------------------------ bounds
MaxSources == 1       \* style blocks per page, and inline-styled elements per page
MaxContent == 1       \* content parts in a generation response message
MaxAnnotations == 2   \* annotations on one content part

\* ------------------------------------------------------------- primitives
Nothing == <<>>
Some(v) == <<v>>
Has(m) == Len(m) = 1
Range(s) == {s[i] : i \in 1..Len(s)}
SeqsUpTo(S, n) == UNION {[1..k -> S] : k \in 0..n}

\* --------------------------------------------------------- exception kinds
\* selenium.common.exceptions: TimeoutException derives from WebDriverException,
\* which derives from Exception.
Kinds == {"TimeoutException", "WebDriverException", "Exception"}
Msgs == {"m1", "m2"}
isinstance(kind, cls) ==
    \/ cls = "Exception"
    \/ cls = "WebDriverException" /\ kind \in {"WebDriverException", "TimeoutException"}
    \/ cls = "TimeoutException" /\ kind = "TimeoutException"

NoExc == [kind |-> "none", msg |-> "", at |-> ""]
Raised(kind, msg, at) == [kind |-> kind, msg |-> msg, at |-> at]

\* ----------------------------------------------------------- WebsiteRequest
Missing == "<missing>"      \* the field is not in the JSON body
None == "None"              \* JSON null / Python None
BodyContextSizes == {Missing, None, "low", "medium", "high", "invalid"}
Dict(items) == [none |-> FALSE, items |-> items]
NoneDict == [none |-> TRUE, items |-> {}]
BodyLocations ==
    { NoneDict,
      Dict({}),
      Dict({<<"country", "FR">>, <<"timezone", "Europe/Paris">>, <<"zip", "75001">>}) }
Bodies ==
    [ enable_web_search : {Missing, "true", "false"},
      search_context_size : BodyContextSizes,
      user_location : BodyLocations ]

\* pydantic fills a missing field with the declared default and keeps an
\* explicit null as None.
WebsiteRequest(body) ==
    [ url |-> "http://site",
      enable_web_search |->
          IF body.enable_web_search = Missing THEN FALSE
          ELSE body.enable_web_search = "true",
      search_context_size |->
          IF body.search_context_size = Missing THEN "medium"
          ELSE body.search_context_size,
      user_location |-> body.user_location ]

NoRequest ==
    [ url |-> "", enable_web_search |-> FALSE, search_context_size |-> None,
      user_location |-> NoneDict ]

\* -------------------------------------------------------------------- page
\* A style text is the sequence of what the two regular expressions can match
\* in it: hex-colour tokens and font-family declarations.  The same colour
\* and the same font occur in both texts, and twice in the second.
StyleTexts ==
    { << <<"hex", "c1">>, <<"font", "f1">> >>,
      << <<"hex", "c2">>, <<"font", "f1">>, <<"hex", "c1">>, <<"hex", "c2">> >> }
\* a <style> tag whose .string is None, or a text
StyleTags == {[string |-> Nothing]} \cup {[string |-> Some(t)] : t \in StyleTexts}
InlineElements == {[style |-> t] : t \in StyleTexts}
Soups ==
    { [style_tags |-> st, inline |-> il] :
        st \in SeqsUpTo(StyleTags, MaxSources), il \in SeqsUpTo(InlineElements, MaxSources) }
NoSoup == [style_tags |-> <<>>, inline |-> <<>>]

\* the <main> element found by driver.find_element, if any, with its rendered size
MainSize == [width |-> 800, height |-> 600]
Mains == {Nothing, Some(MainSize)}

\* ---------------------------------------------------------- extract_styles
\* What the environment does during one run of extract_styles: the call that
\* raises, if any, and what the <main> lookup finds.
ScanFaults == {"none", "style_tags", "inline", "find_main", "size_width", "size_height"}
ScanEnvs == [fault : ScanFaults, main : Mains]
NoScan == [fault |-> "none", main |-> Nothing]

DefaultStyles == [colors |-> {}, fonts |-> {}, layout |-> {}, components |-> <<>>]

findall(kind, text) ==
    LET hits == SelectSeq(text, LAMBDA tok : tok[1] = kind)
    IN  [i \in 1..Len(hits) |-> hits[i][2]]

RECURSIVE ScanStyleTags(_, _)
ScanStyleTags(tags, acc) ==
    IF tags = <<>> THEN acc
    ELSE LET style == Head(tags)
             upd == IF Has(style.string) /\ style.string[1] # <<>>
                    THEN [colors |-> acc.colors \cup Range(findall("hex", style.string[1])),
                          fonts |-> acc.fonts \cup Range(findall("font", style.string[1]))]
                    ELSE acc
         IN  ScanStyleTags(Tail(tags), upd)

RECURSIVE ScanInline(_, _)
ScanInline(elements, acc) ==
    IF elements = <<>> THEN acc
    ELSE LET style_attr == Head(elements).style
         IN  ScanInline(Tail(elements),
                        [colors |-> acc.colors \cup Range(findall("hex", style_attr)),
                         fonts |-> acc.fonts \cup Range(findall("font", style_attr))])

\* the inner try of extract_styles: every failure is passed over, keeping the
\* layout entries already stored
MainLayout(env) ==
    IF env.fault = "find_main" \/ ~Has(env.main) \/ env.fault = "size_width" THEN {}
    ELSE IF env.fault = "size_height" THEN {<<"main_width", env.main[1].width>>}
    ELSE {<<"main_width", env.main[1].width>>, <<"main_height", env.main[1].height>>}

\* faulty variant: the <main> lookup is not guarded on its own
extract_styles_unguarded_lookup(soup, env) ==
    IF env.fault # "none" \/ ~Has(env.main) THEN DefaultStyles
    ELSE LET scanned == ScanInline(soup.inline,
                            ScanStyleTags(soup.style_tags, [colors |-> {}, fonts |-> {}]))
         IN  [colors |-> scanned.colors, fonts |-> scanned.fonts,
              layout |-> MainLayout(env), components |-> <<>>]

extract_styles(soup, env) ==
    IF env.fault \in {"style_tags", "inline"} THEN DefaultStyles
    ELSE LET scanned == ScanInline(soup.inline,
                            ScanStyleTags(soup.style_tags, [colors |-> {}, fonts |-> {}]))
         IN  [colors |-> scanned.colors, fonts |-> scanned.fonts,
              layout |-> MainLayout(env), components |-> <<>>]

\* --------------------------------------------------------- take_screenshots
ShotFaults ==
    {"none", "scroll_height", "resize_full", "capture_full",
     "resize_viewport", "capture_viewport", "find_main", "capture_main"}
ShotEnvs == [fault : ShotFaults, main : Mains]
Shot(type) == [type |-> type, data |-> "base64:" \o type]

take_screenshots(env) ==
    IF env.fault \in {"scroll_height", "resize_full", "capture_full"} THEN <<>>
    ELSE LET s1 == <<Shot("full_page")>>
         IN  IF env.fault \in {"resize_viewport", "capture_viewport"} THEN s1
             ELSE LET s2 == Append(s1, Shot("viewport"))
                  IN  IF env.fault \in {"find_main", "capture_main"} \/ ~Has(env.main)
                      THEN s2
                      ELSE Append(s2, Shot("main_content"))

\* ------------------------------------------------- text-generation service
\* URL-citation and other annotations a response may carry
Annotations ==
    { [type |-> "url_citation", url |-> "u1", title |-> "t1", start_index |-> 0, end_index |-> 4],
      [type |-> "url_citation", url |-> "u2", title |-> "t2", start_index |-> 5, end_index |-> 9],
      [type |-> "file_citation", url |-> "u3", title |-> "t3", start_index |-> 2, end_index |-> 3] }
\* a content part, with or without an annotations attribute
ContentParts ==
    {[annotations |-> Nothing]}
        \cup {[annotations |-> Some(a)] : a \in SeqsUpTo(Annotations, MaxAnnotations)}
\* a message, with or without a content attribute
Messages ==
    {[content |-> Nothing]}
        \cup {[content |-> Some(c)] : c \in SeqsUpTo(ContentParts, MaxContent)}
\* what client.responses.create returns: with or without a message attribute
AugmentedResponses ==
    { [api |-> "responses", text |-> "analysis-a", message |-> m, choices |-> <<>>] :
        m \in {Nothing} \cup {Some(x) : x \in Messages} }
\* what client.chat.completions.create returns: a list of choices
StandardResponses ==
    { [api |-> "chat", text |-> "", message |-> Nothing, choices |-> c] :
        c \in {<<>>, <<"analysis-s">>} }
NoResponse == [api |-> "none", text |-> "", message |-> Nothing, choices |-> <<>>]

ContextSizes == {"low", "medium", "high"}
LocationKeys == <<"country", "city", "region", "timezone">>

\* lines 254-266: the approximate-location object, field by field
RECURSIVE location_data(_, _)
location_data(user_location, i) ==
    IF i > Len(LocationKeys) THEN {<<"type", "approximate">>}
    ELSE location_data(user_location, i + 1)
            \cup {p \in user_location.items : p[1] = LocationKeys[i]}

\* faulty variant: any value that is not None is forwarded
web_search_tool_forward_any(request) ==
    [ type |-> "web_search_preview",
      search_context_size |->
          IF request.search_context_size # None
          THEN Some(request.search_context_size) ELSE Nothing,
      user_location |->
          IF ~request.user_location.none /\ request.user_location.items # {}
          THEN Some(location_data(request.user_location, 1)) ELSE Nothing ]

\* lines 244-268: the tool configuration; a key left out is Nothing
web_search_tool(request) ==
    [ type |-> "web_search_preview",
      search_context_size |->
          IF request.search_context_size \in ContextSizes
          THEN Some(request.search_context_size) ELSE Nothing,
      user_location |->
          IF ~request.user_location.none /\ request.user_location.items # {}
          THEN Some(location_data(request.user_location, 1)) ELSE Nothing ]
NoTool == Nothing

Citation(annotation) ==
    [ url |-> annotation.url, title |-> annotation.title,
      start_index |-> annotation.start_index, end_index |-> annotation.end_index ]

\* lines 297-304: the loop over one content part's annotations
RECURSIVE AnnotationCitations(_)
AnnotationCitations(annotations) ==
    IF annotations = <<>> THEN <<>>
    ELSE (IF Head(annotations).type = "url_citation"
          THEN <<Citation(Head(annotations))>> ELSE <<>>)
            \o AnnotationCitations(Tail(annotations))

\* lines 295-296: the loop over the content parts
RECURSIVE ContentCitations(_)
ContentCitations(content) ==
    IF content = <<>> THEN <<>>
    ELSE (IF Has(Head(content).annotations)
          THEN AnnotationCitations(Head(content).annotations[1]) ELSE <<>>)
            \o ContentCitations(Tail(content))

\* faulty variant: every annotation is taken for a URL citation
citations_of_any_type(response) ==
    IF Has(response.message) /\ Has(response.message[1].content)
    THEN LET RECURSIVE All(_)
             All(content) ==
                 IF content = <<>> THEN <<>>
                 ELSE (IF Has(Head(content).annotations)
                       THEN [i \in 1..Len(Head(content).annotations[1]) |->
                                Citation(Head(content).annotations[1][i])]
                       ELSE <<>>) \o All(Tail(content))
         IN  All(response.message[1].content[1])
    ELSE <<>>

\* lines 293-304
citations_of(response) ==
    IF Has(response.message) /\ Has(response.message[1].content)
    THEN ContentCitations(response.message[1].content[1])
    ELSE <<>>

\* lines 330-340: the result; the citations key is left out when Nothing
AnalysisResult(request, analysis, styles, screenshots, citations) ==
    [ url |-> request.url, analysis |-> analysis, styles |-> styles,
      screenshots |-> screenshots, timestamp |-> "now",
      citations |-> IF request.enable_web_search /\ citations # <<>>
                    THEN Some(citations) ELSE Nothing ]

\* faulty variant: the standard call is made whatever the request asks
GenerationMode_standard_only(request) == "standard"

\* line 240
GenerationMode(request) ==
    IF request.enable_web_search THEN "augmented" ELSE "standard"

\* ------------------------------------------------------- exception mapping
TimeoutDetail == "Timeout while loading website"
GenericDetail == "An unexpected error occurred"

\* faulty variant: the browser-error clause comes first
ExceptClauses_browser_first == <<"WebDriverException", "TimeoutException", "Exception">>

\* lines 344, 347, 350: the except clauses, in the order they are tried
ExceptClauses == <<"TimeoutException", "WebDriverException", "Exception">>

RECURSIVE FirstMatch(_, _)
FirstMatch(kind, i) ==
    IF isinstance(kind, ExceptClauses[i]) THEN ExceptClauses[i] ELSE FirstMatch(kind, i + 1)

\* what leaves the handler: a returned result, an HTTPException, or an
\* exception no clause turned into one
Returned == [kind |-> "return", status |-> 200, detail |-> ""]
HTTPException(status, detail) == [kind |-> "HTTPException", status |-> status, detail |-> detail]
Uncaught(e) == [kind |-> "Exception", status |-> 0, detail |-> e.msg]
NoOutcome == [kind |-> "none", status |-> 0, detail |-> ""]

\* lines 344-352
HandlerFor(e) ==
    LET clause == FirstMatch(e.kind, 1)
    IN  IF clause = "TimeoutException" THEN HTTPException(408, TimeoutDetail)
        ELSE IF clause = "WebDriverException"
             THEN HTTPException(400, "Failed to access website: " \o e.msg)
             ELSE HTTPException(500, e.msg)

\* faulty variant: an error of driver.quit() leaves the finally block
TeardownOutcome_propagates(pending, quit) ==
    IF quit = "raise" THEN Uncaught([msg |-> "quit failed"]) ELSE pending

\* lines 355-358: whatever driver.quit() does, the pending outcome stands
TeardownOutcome(pending, quit) == pending

\* faulty variant: the session is released on the success path only
ShouldQuit_on_success_only(drv, pending) == Has(drv) /\ pending.kind = "return"

\* line 354
ShouldQuit(drv, pending) == Has(drv)

\* What the framework sends: a result as 200, an HTTPException as its status
\* and detail, anything else through global_exception_handler (lines 360-367).
NoReply == [status |-> 0, detail |-> "", body |-> Nothing]
Deliver(out, res) ==
    IF out.kind = "return" THEN [status |-> 200, detail |-> "", body |-> res]
    ELSE IF out.kind = "HTTPException"
         THEN [status |-> out.status, detail |-> out.detail, body |-> Nothing]
         ELSE [status |-> 500, detail |-> GenericDetail, body |-> Nothing]

\* ------------------------------------------------------------------- state
VARIABLES
    pc,           \* where the request is in analyze_website
    request,      \* the parsed WebsiteRequest
    driver,       \* the local variable driver: Nothing (None) or Some(session)
    proc,         \* the browser process: "none", "running", "terminated"
    exc,          \* the exception raised inside the try block, if any
    soup,         \* the parsed page source
    scan,         \* what the environment did during extract_styles
    styles,       \* the value extract_styles returned
    screenshots,  \* the value take_screenshots returned
    calls,        \* the calls made to the text-generation service, by mode
    tool,         \* the web-search tool configuration sent, if any
    response,     \* the generation response
    result,       \* the dict analyze_website returns, if any
    outcome,      \* what is leaving the handler: return value or exception
    quit,         \* what driver.quit() did: "none" (not called), "ok", "raise"
    reply,        \* the HTTP response sent
    log           \* the steps taken, in order

vars ==
    << pc, request, driver, proc, exc, soup, scan, styles, screenshots, calls,
       tool, response, result, outcome, quit, reply, log >>

Init ==
    /\ pc = "idle"
    /\ request = NoRequest
    /\ driver = Nothing
    /\ proc = "none"
    /\ exc = NoExc
    /\ soup = NoSoup
    /\ scan = NoScan
    /\ styles = DefaultStyles
    /\ screenshots = <<>>
    /\ calls = <<>>
    /\ tool = NoTool
    /\ response = NoResponse
    /\ result = Nothing
    /\ outcome = NoOutcome
    /\ quit = "none"
    /\ reply = NoReply
    /\ log = <<>>

\* a call of the environment either succeeds or raises
Ok == [kind |-> "ok", msg |-> "", at |-> ""]
Errors(at, kinds) == {Raised(k, m, at) : k \in kinds, m \in Msgs}

\* POST /analyze arrives; the body is parsed; line 208
Receive ==
    /\ pc = "idle"
    /\ \E body \in Bodies : request' = WebsiteRequest(body)
    /\ pc' = "setup"
    /\ log' = Append(log, "receive")
    /\ UNCHANGED << driver, proc, exc, soup, scan, styles, screenshots, calls, tool,
                    response, result, outcome, quit, reply >>

\* line 211 with setup_selenium, lines 156-184: webdriver.Chrome starts the
\* browser, set_page_load_timeout configures it; an error of either is
\* re-raised and the assignment to driver does not happen
SetupSelenium ==
    /\ pc = "setup"
    /\ \E o \in {Ok} \cup Errors("Chrome", Kinds) \cup Errors("set_page_load_timeout", Kinds) :
          IF o = Ok
          THEN /\ proc' = "running"
               /\ driver' = Some("session")
               /\ exc' = exc
               /\ pc' = "get"
          ELSE /\ proc' = IF o.at = "Chrome" THEN "none" ELSE "running"
               /\ driver' = driver
               /\ exc' = o
               /\ pc' = "except"
    /\ log' = Append(log, "setup")
    /\ UNCHANGED << request, soup, scan, styles, screenshots, calls, tool, response,
                    result, outcome, quit, reply >>

\* line 216: driver.get
Navigate ==
    /\ pc = "get"
    /\ \E o \in {Ok} \cup Errors("get", Kinds) :
          IF o = Ok THEN pc' = "wait" /\ exc' = exc
          ELSE pc' = "except" /\ exc' = o
    /\ log' = Append(log, "get")
    /\ UNCHANGED << request, driver, proc, soup, scan, styles, screenshots, calls, tool,
                    response, result, outcome, quit, reply >>

\* lines 219-221: the wait for the body element
WaitForBody ==
    /\ pc = "wait"
    /\ \E o \in {Ok} \cup Errors("wait", Kinds) :
          IF o = Ok THEN pc' = "source" /\ exc' = exc
          ELSE pc' = "except" /\ exc' = o
    /\ log' = Append(log, "wait")
    /\ UNCHANGED << request, driver, proc, soup, scan, styles, screenshots, calls, tool,
                    response, result, outcome, quit, reply >>

\* lines 224-228: the page source is read and parsed
PageSource ==
    /\ pc = "source"
    /\ \E o \in {Ok} \cup Errors("page_source", Kinds) :
          IF o = Ok THEN pc' = "styles" /\ exc' = exc /\ soup' \in Soups
          ELSE pc' = "except" /\ exc' = o /\ soup' = soup
    /\ log' = Append(log, "source")
    /\ UNCHANGED << request, driver, proc, scan, styles, screenshots, calls, tool,
                    response, result, outcome, quit, reply >>

\* line 232
ExtractStyles ==
    /\ pc = "styles"
    /\ \E env \in ScanEnvs :
          /\ scan' = env
          /\ styles' = extract_styles(soup, env)
    /\ pc' = "shots"
    /\ log' = Append(log, "styles")
    /\ UNCHANGED << request, driver, proc, exc, soup, screenshots, calls, tool,
                    response, result, outcome, quit, reply >>

\* line 236; the parsed page is not read again after line 232
TakeScreenshots ==
    /\ pc = "shots"
    /\ \E env \in ShotEnvs : screenshots' = take_screenshots(env)
    /\ soup' = NoSoup
    /\ scan' = NoScan
    /\ pc' = "generate"
    /\ log' = Append(log, "shots")
    /\ UNCHANGED << request, driver, proc, exc, styles, calls, tool, response,
                    result, outcome, quit, reply >>

\* lines 239-342: one call to the text-generation service in the mode the
\* request fixes, then the result; an error of the call, or a standard
\* response without choices (line 327), is raised
Generate ==
    /\ pc = "generate"
    /\ LET mode == GenerationMode(request)
       IN  /\ calls' = Append(calls, mode)
           /\ tool' = IF mode = "augmented" THEN Some(web_search_tool(request)) ELSE tool
           /\ \/ \E e \in Errors("generate", {"Exception"}) :
                    /\ exc' = e
                    /\ pc' = "except"
                    /\ UNCHANGED << response, result, outcome >>
              \/ \E o \in (IF mode = "augmented" THEN AugmentedResponses
                            ELSE StandardResponses) :
                    IF mode = "standard" /\ o.choices = <<>>
                    THEN /\ exc' = Raised("Exception", "list index out of range", "generate")
                         /\ response' = o
                         /\ pc' = "except"
                         /\ UNCHANGED << result, outcome >>
                    ELSE /\ response' = o
                         /\ result' = Some(AnalysisResult(
                                request,
                                IF mode = "augmented" THEN o.text ELSE o.choices[1],
                                styles, screenshots,
                                IF mode = "augmented" THEN citations_of(o) ELSE <<>>))
                         /\ outcome' = Returned
                         /\ exc' = exc
                         /\ pc' = "finally"
    /\ log' = Append(log, "generate")
    /\ UNCHANGED << request, driver, proc, soup, scan, styles, screenshots, quit, reply >>

\* lines 344-352
HandleException ==
    /\ pc = "except"
    /\ outcome' = HandlerFor(exc)
    /\ pc' = "finally"
    /\ log' = Append(log, "except")
    /\ UNCHANGED << request, driver, proc, exc, soup, scan, styles, screenshots, calls,
                    tool, response, result, quit, reply >>

\* lines 353-358; when driver.quit() raises, the browser may or may not be gone
Finally ==
    /\ pc = "finally"
    /\ IF ShouldQuit(driver, outcome)
       THEN \E q \in {"ok", "raise"} :
               /\ quit' = q
               /\ proc' \in (IF q = "ok" THEN {"terminated"} ELSE {"running", "terminated"})
               /\ outcome' = TeardownOutcome(outcome, q)
               /\ log' = Append(log, "quit")
       ELSE UNCHANGED << quit, proc, outcome, log >>
    /\ response' = NoResponse
    /\ pc' = "return"
    /\ UNCHANGED << request, driver, exc, soup, scan, styles, screenshots, calls, tool,
                    result, reply >>

\* the framework sends the response
Respond ==
    /\ pc = "return"
    /\ reply' = Deliver(outcome, result)
    /\ pc' = "done"
    /\ log' = Append(log, "return")
    /\ UNCHANGED << request, driver, proc, exc, soup, scan, styles, screenshots, calls,
                    tool, response, result, outcome, quit >>

Next ==
    \/ Receive
    \/ SetupSelenium
    \/ Navigate
    \/ WaitForBody
    \/ PageSource
    \/ ExtractStyles
    \/ TakeScreenshots
    \/ Generate
    \/ HandleException
    \/ Finally
    \/ Respond

Spec == Init /\ [][Next]_vars

\* ------------------------------------------------------------------ claims
Count(seq, x) == Cardinality({i \in 1..Len(seq) : seq[i] = x})
Before(seq, x, y) ==
    \A j \in 1..Len(seq) : seq[j] = y => \E i \in 1..(j - 1) : seq[i] = x

\* C1: when setup_selenium returned a driver, driver.quit() has been called
\* exactly once, and before the response is sent, on every exit path; it is
\* never called twice.
C1_QuitExactlyOnce ==
    /\ Count(log, "quit") <= 1
    /\ (Has(driver) /\ pc \in {"return", "done"}) =>
          /\ Count(log, "quit") = 1
          /\ quit # "none"
          /\ Before(log, "quit", "return")
C1_Witness ==
    /\ pc = "done"
    /\ Has(driver)
    /\ exc.kind = "Exception"
    /\ exc.at = "generate"
    /\ Count(log, "quit") = 1

\* C2: a timeout of driver.get or of the body wait is answered with 408 and
\* the detail "Timeout while loading website"; any other browser error is
\* answered with 400; a timeout is never answered with 400 and another
\* browser error never with 408.
C2_TimeoutIs408BrowserErrorIs400 ==
    pc = "done" =>
        /\ (exc.kind = "TimeoutException" /\ exc.at \in {"get", "wait"}) =>
              reply.status = 408 /\ reply.detail = TimeoutDetail
        /\ exc.kind = "TimeoutException" => reply.status # 400
        /\ exc.kind = "WebDriverException" => reply.status = 400
C2_Witness ==
    /\ pc = "done"
    /\ exc.kind = "TimeoutException"
    /\ exc.at = "wait"
    /\ reply.status = 408

\* C3: an unexpected exception (neither a timeout nor a browser error) is
\* answered with 500 and the fixed generic body, whatever its text.
C3_UnexpectedIsGeneric500 ==
    (pc = "done" /\ exc.kind = "Exception") =>
        reply.status = 500 /\ reply.detail = GenericDetail

\* C4: every 200 response carries a full_page and a viewport screenshot, in
\* that order, as its first two screenshots.
C4_MandatoryScreenshots ==
    (pc = "done" /\ reply.status = 200) =>
        /\ Len(reply.body[1].screenshots) >= 2
        /\ reply.body[1].screenshots[1].type = "full_page"
        /\ reply.body[1].screenshots[2].type = "viewport"

\* the places of the URL-citation annotations in a response: content part
\* and position in the part
UrlCitationSlots(r) ==
    IF Has(r.message) /\ Has(r.message[1].content)
    THEN LET content == r.message[1].content[1]
         IN  UNION { { <<i, j>> : j \in {k \in 1..Len(content[i].annotations[1]) :
                                     content[i].annotations[1][k].type = "url_citation"} } :
                     i \in {n \in 1..Len(content) : Has(content[n].annotations)} }
    ELSE {}
SlotAnnotation(r, slot) == r.message[1].content[1][slot[1]].annotations[1][slot[2]]
SameFields(c, a) ==
    /\ c.url = a.url
    /\ c.title = a.title
    /\ c.start_index = a.start_index
    /\ c.end_index = a.end_index

SourceTexts(s) ==
    {s.style_tags[i].string[1] : i \in {n \in 1..Len(s.style_tags) : Has(s.style_tags[n].string)}}
        \cup {s.inline[i].style : i \in 1..Len(s.inline)}
Declared(s, kind) ==
    {tok[2] : tok \in {t \in UNION {Range(text) : text \in SourceTexts(s)} : t[1] = kind}}

\* C7: extract_styles never raises: an error in the style scan gives the
\* default styles, and a failure of the <main> lookup alone leaves layout
\* empty and keeps the colours and fonts collected; the request goes on to
\* the screenshots either way.
C7_ExtractStylesDegrades ==
    /\ pc = "shots" =>
          /\ exc = NoExc
          /\ scan.fault \in {"style_tags", "inline"} => styles = DefaultStyles
          /\ (scan.fault = "find_main" \/ (scan.fault = "none" /\ ~Has(scan.main))) =>
                /\ styles.layout = {}
                /\ styles.colors = Declared(soup, "hex")
                /\ styles.fonts = Declared(soup, "font")
    /\ exc.at # "styles"
C7_Witness ==
    /\ pc = "shots"
    /\ scan.fault = "find_main"
    /\ Has(scan.main)
    /\ styles.colors = {"c1", "c2"}
    /\ styles.fonts = {"f1"}
    /\ styles.layout = {}

\* C8: when driver.quit() raises, nothing of it reaches the caller: the
\* response is the result with 200 when the pipeline succeeded, and the 408,
\* 400 or 500 of the pipeline's own error otherwise.
C8_TeardownFailureSuppressed ==
    (pc = "done" /\ quit = "raise") =>
        IF exc = NoExc
        THEN reply.status = 200 /\ Has(result) /\ reply.body = result
        ELSE /\ reply.body = Nothing
             /\ reply.status = (IF exc.kind = "TimeoutException" THEN 408
                                ELSE IF exc.kind = "WebDriverException" THEN 400 ELSE 500)
             /\ reply.detail # GenericDetail
C8_Witness ==
    /\ pc = "done"
    /\ quit = "raise"
    /\ reply.status = 200

\* C9: a request calls the text-generation service at most once, in the mode
\* enable_web_search fixes, and only after page load, style extraction and
\* screenshot capture; when the call fails the request ends with an error and
\* no second call.
C9_OneGenerationCall ==
    /\ Len(calls) <= 1
    /\ Count(log, "generate") = Len(calls)
    /\ calls # <<>> =>
          calls[1] = (IF request.enable_web_search THEN "augmented" ELSE "standard")
    /\ Before(log, "wait", "generate")
    /\ Before(log, "styles", "generate")
    /\ Before(log, "shots", "generate")
    /\ (pc = "done" /\ exc.at = "generate") =>
          Len(calls) = 1 /\ reply.status = 500 /\ reply.body = Nothing
C9_Witness ==
    /\ pc = "done"
    /\ exc.at = "generate"
    /\ request.enable_web_search
    /\ calls = <<"augmented">>

\* C10: no browser process started for a request is still running when the
\* response has been sent.
C10_NoBrowserLeftRunning ==
    pc = "done" => proc # "running"

====
